---- MODULE Spec2Model ----
(***************************************************************************)
(* A model of lua_call (src/lua_call.py): the script transformation        *)
(* (_fix_calls), the registry (REGISTRY, _register, load_scripts), the     *)
(* backing store as the code uses it (SCRIPT LOAD, HSET/HGET ':registry',  *)
(* EVALSHA) and the execution of transformed scripts by the host engine.   *)
(*                                                                         *)
(* Text is a sequence of tokens.  A token is one character, or one of the  *)
(* words the regular expressions look for ("KEYS", "ARGV", "CALL"), or an  *)
(* identifier / keyword written as one word.  A text is always in that     *)
(* form: no word is ever spelled out of smaller tokens, so every           *)
(* occurrence of KEYS, ARGV or CALL in the text is one token.              *)
(***************************************************************************)
EXTENDS Integers, Sequences, FiniteSets, TLC

\* ------------------------------------------------------------ bounds
MaxText == 4
MaxArgs == 3
MaxStack == 4
MaxReplyDepth == 4

VARIABLES
    fixIn, fixModule, fixOut, fixPc,  \* one call of _fix_calls: its arguments, its result
    REGISTRY,                         \* lua_call.REGISTRY: full name -> <<'f_' + hash, fixed>>
    gl,                               \* the registering modules' globals: <<module, name>> -> hash
    scripts,                          \* the store's script cache: the digests of the loaded texts
    registry,                         \* the store's hash ':registry': full name -> value
    raw,                              \* full name -> the source text last registered under it
    lastOp,                           \* the last registration or publication and what it returned
    call,                             \* the last call of a wrapper: its name and arguments
    stack,                            \* the host engine's call stack, one frame per running script
    heap,                             \* the host engine's tables; KEYS is heap[1], ARGV is heap[2]
    result                            \* what the last call of a wrapper returned

textVars == <<fixIn, fixModule, fixOut, fixPc>>
regVars == <<REGISTRY, gl, scripts, registry, raw, lastOp>>
runVars == <<call, stack, heap, result>>
vars == <<fixIn, fixModule, fixOut, fixPc, REGISTRY, gl, scripts, registry, raw, lastOp,
          call, stack, heap, result>>

\* ------------------------------------------------------------ text helpers
Range(s) == {s[i] : i \in 1..Len(s)}

SeqsUpTo(A, n) == UNION {[1..k -> A] : k \in 0..n}

RECURSIVE Flatten(_)
Flatten(ss) == IF ss = <<>> THEN <<>> ELSE Head(ss) \o Flatten(Tail(ss))

Sub(s, a, b) == IF a > b THEN <<>> ELSE SubSeq(s, a, b)

\* character classes of the regular expressions
Quote == {"'", "\""}
Newline == "\n"
Blank == {" ", "\t"}
Digits == {"0", "1", "2", "3", "4", "5", "6", "7", "8", "9"}
Punct == Quote \cup Blank \cup {Newline, ".", "(", ")", "{", "}", ",", "=", ";", "[", "]", ":"}
IsIdChar(t) == t \notin Punct
IsIdStart(t) == t \notin Punct /\ t \notin Digits

\* ------------------------------------------------------------ the fixed texts
\* CALL_HEADER: the fixed text prepended to every script, written as one
\* token that stands for its statements; what they do is Preamble below.
CALL_HEADER == "local _KEYS, _ARGV; if ... else ... table.remove(ARGV); end;"

\* The three literal pieces of PUSH_STACK_CALL_FCN around its %s.
PUSH_OPEN == "table.insert(ARGV, {"
PUSH_CLOSE == "});"
CALL_OPEN == "_G[redis.call('HGET', ':registry', '"
CALL_CLOSE == "')]();"

PUSH_STACK_CALL_FCN(args, left, full) ==
    <<PUSH_OPEN>> \o args \o <<PUSH_CLOSE>> \o left \o <<CALL_OPEN>> \o full \o <<CALL_CLOSE>>

\* ------------------------------------------------------------ KEYS_RE
\* KEYS_RE with its lookahead left out
KEYS_RE_match_behind(s, i) ==
    /\ s[i] \in {"KEYS", "ARGV"}
    /\ ~(i > 1 /\ s[i - 1] \in Quote)

\* (?<!["'])((?:KEYS)|(?:ARGV))(?!["']) matches at i
KEYS_RE_match(s, i) ==
    /\ s[i] \in {"KEYS", "ARGV"}
    /\ ~(i > 1 /\ s[i - 1] \in Quote)
    /\ ~(i < Len(s) /\ s[i + 1] \in Quote)

\* KEYS_RE.sub(r'_\1', script)
KEYS_RE_sub(s) ==
    Flatten([i \in 1..Len(s) |-> IF KEYS_RE_match(s, i) THEN <<"_", s[i]>> ELSE <<s[i]>>])

\* ------------------------------------------------------------ CALL_RE
\* the first position >= i whose token is in Stop, Len(s)+1 if none
RECURSIVE SkipUntil(_, _, _)
SkipUntil(s, i, Stop) ==
    IF i > Len(s) \/ s[i] \in Stop THEN i ELSE SkipUntil(s, i + 1, Stop)

\* the first position >= i whose token is not in Class, Len(s)+1 if none
RECURSIVE SkipWhile(_, _, _)
SkipWhile(s, i, Class) ==
    IF i > Len(s) \/ s[i] \notin Class THEN i ELSE SkipWhile(s, i + 1, Class)

\* [a-zA-Z_][a-zA-Z0-9_]*(?:[.][a-zA-Z_][a-zA-Z0-9_]*)*  matches all of p
ValidPath(p) ==
    /\ p # <<>>
    /\ IsIdStart(p[1])
    /\ p[Len(p)] # "."
    /\ \A i \in 1..Len(p) - 1 : p[i] = "." => IsIdStart(p[i + 1])

NoMatch == [ok |-> FALSE]

\* [^)] in place of [^()]
ArgStopClose == {")"}
\* the tokens [^()] does not take
ArgStop == {"(", ")"}

\* CALL[.](path)[(]([^()]+)[)]\s*?$ tried with CALL at j.  The path is greedy
\* and must be followed by "(", so it ends at the first token that is neither
\* an identifier character nor a dot; [^()]+ runs to the first parenthesis
\* (it takes line breaks too); \s*?$ takes blanks up to the end of the line.
CallAt(s, j) ==
    IF ~(j + 1 <= Len(s) /\ s[j] = "CALL" /\ s[j + 1] = ".") THEN NoMatch
    ELSE LET p == SkipUntil(s, j + 2, Punct \ {"."})
             q == SkipUntil(s, p + 1, ArgStop)
             r == SkipWhile(s, q + 1, Blank)
         IN  IF /\ p <= Len(s) /\ s[p] = "("
                /\ ValidPath(Sub(s, j + 2, p - 1))
                /\ q <= Len(s) /\ s[q] = ")" /\ q > p + 1
                /\ (r > Len(s) \/ s[r] = Newline)
             THEN [ok |-> TRUE, full |-> Sub(s, j + 2, p - 1),
                   args |-> Sub(s, p + 1, q - 1), end |-> r]
             ELSE NoMatch

\* ^(.*?)CALL... tried at the line start i: the lazy (.*?) takes the first
\* CALL of the line from which the rest matches.
RECURSIVE LazyLeft(_, _, _)
LazyLeft(s, i, j) ==
    IF j > Len(s) THEN NoMatch
    ELSE LET m == CallAt(s, j)
         IN  IF m.ok THEN [ok |-> TRUE, left |-> Sub(s, i, j - 1), full |-> m.full,
                           args |-> m.args, end |-> m.end]
             ELSE IF s[j] = Newline THEN NoMatch
             ELSE LazyLeft(s, i, j + 1)

CALL_RE_match(s, i) ==
    IF i = 1 \/ s[i - 1] = Newline THEN LazyLeft(s, i, i) ELSE NoMatch

\* str.lstrip('.') and str.rstrip('.')
RECURSIVE lstrip(_)
lstrip(s) == IF s # <<>> /\ Head(s) = "." THEN lstrip(Tail(s)) ELSE s

RECURSIVE rstrip(_)
rstrip(s) == IF s # <<>> /\ s[Len(s)] = "." THEN rstrip(Sub(s, 1, Len(s) - 1)) ELSE s

\* fix_calls(match) inside _fix_calls
fix_calls(m, module) ==
    LET full == IF "." \notin Range(m.full) THEN lstrip(module \o <<".">> \o m.full)
                ELSE m.full
    IN  PUSH_STACK_CALL_FCN(m.args, m.left, full)

\* CALL_RE.sub(fix_calls, script): scan from i, replacing each match and
\* going on after it
RECURSIVE CALL_RE_sub(_, _, _)
CALL_RE_sub(s, i, module) ==
    IF i > Len(s) THEN <<>>
    ELSE LET m == CALL_RE_match(s, i)
         IN  IF m.ok THEN fix_calls(m, module) \o CALL_RE_sub(s, m.end, module)
             ELSE <<s[i]>> \o CALL_RE_sub(s, i + 1, module)

MainModule == <<"__main__">>

\* _fix_calls(script, module)
FixCallsOf(script, module) ==
    <<CALL_HEADER>> \o CALL_RE_sub(KEYS_RE_sub(script), 1, module)

\* ------------------------------------------------------------ identities
\* sha1(fixed).hexdigest(): a digest, one per text (no collisions)
Sha1(text) == [t |-> "sha1", v |-> text]
\* 'f_' + hash: the name of the Lua function the store defines for a loaded text
F(hash) == [t |-> "f_", v |-> hash]

Put(f, k, v) == [x \in DOMAIN f \cup {k} |-> IF x = k THEN v ELSE f[x]]
Empty == [x \in {} |-> 0]

StartsWith(s, p) == Len(p) <= Len(s) /\ Sub(s, 1, Len(p)) = p

\* ------------------------------------------------------------ connections
\* "redis" is a client of the store; "dummy" is lua_call.dummy, whose every
\* attribute and call returns itself and does nothing.
Conns == {"dummy", "redis"}

\* the pipeline with HSETNX in place of HSET: a field that exists is kept
RegisterPipelineNX(conn, store, fixed, full, value) ==
    IF conn = "redis"
    THEN [scripts |-> store.scripts \cup {Sha1(fixed)},
          registry |-> IF full \in DOMAIN store.registry THEN store.registry
                       ELSE Put(store.registry, full, value)]
    ELSE store

\* conn.pipeline(True).script_load(fixed).hset(':registry', full, value).execute()
\* as _register.call issues it
RegisterPipeline(conn, store, fixed, full, value) ==
    IF conn = "redis"
    THEN [scripts |-> store.scripts \cup {Sha1(fixed)},
          registry |-> Put(store.registry, full, value)]
    ELSE store

\* pipe.script_load(fixed); pipe.hset(':registry', full, hash) for one entry
\* of REGISTRY, as load_scripts queues them
LoadEntry(store, full, entry) ==
    [scripts |-> store.scripts \cup {Sha1(entry[2])},
     registry |-> Put(store.registry, full, entry[1])]

RECURSIVE LoadAll(_, _, _)
LoadAll(store, names, reg) ==
    IF names = {} THEN store
    ELSE LET n == CHOOSE x \in names : TRUE
         IN  LoadAll(LoadEntry(store, n, reg[n]), names \ {n}, reg)

\* ------------------------------------------------------------ values
\* Values of the host language (numbers, strings, nil, references to tables)
\* and of the client (the same, with lists in place of tables).
Num(n) == [t |-> "num", v |-> n]
Str(s) == [t |-> "str", v |-> s]
Ref(a) == [t |-> "tab", v |-> a]
List(vs) == [t |-> "list", v |-> vs]
Err(msg) == [t |-> "err", v |-> msg]
Nil == [t |-> "nil", v |-> 0]
NoResult == [t |-> "none", v |-> 0]
NoCall == [module |-> <<>>, name |-> <<>>, keys |-> <<>>, argv |-> <<>>]

\* the client is between two operations: no wrapper is being called
AtRest == stack = <<>> /\ call = NoCall
Idle == UNCHANGED <<call, stack, heap, result>>

\* ------------------------------------------------------------ registration
\* the module name as _register.call and load_scripts normalise it
ModuleOf(module) == IF module = MainModule THEN <<>> ELSE module
FullName(module, name) == lstrip(ModuleOf(module) \o <<".">> \o name)

\* a name every check lets through
NameOkAlways(name) == TRUE
\* _register: a name with a period raises ValueError
NameOk(name) == "." \notin Range(name)

\* the bare digest written to the field
RegistryValueBare(hash) == hash
\* the value _register.call writes to the field of ':registry'
RegistryValue(hash) == F(hash)

\* an entry that keeps the bare digest
RegistryEntryBare(hash, fixed) == <<hash, fixed>>
\* the value _register.call stores in REGISTRY
RegistryEntry(hash, fixed) == <<F(hash), fixed>>

\* function .<name>(script, conn), name without a period
Register(module, name, script, conn) ==
    /\ AtRest
    /\ NameOk(name)
    /\ LET full == FullName(module, name)
           fixed == FixCallsOf(script, ModuleOf(module))
           hash == Sha1(fixed)
           store == RegisterPipeline(conn, [scripts |-> scripts, registry |-> registry],
                                     fixed, full, RegistryValue(hash))
       IN  /\ scripts' = store.scripts
           /\ registry' = store.registry
           /\ REGISTRY' = Put(REGISTRY, full, RegistryEntry(hash, fixed))
           /\ gl' = Put(gl, <<module, name>>, hash)
           /\ raw' = Put(raw, full, script)
           /\ lastOp' = [op |-> "register", module |-> module, name |-> name,
                         full |-> full, conn |-> conn,
                         was |-> IF full \in DOMAIN REGISTRY
                                 THEN <<REGISTRY[full], raw[full]>> ELSE <<>>]
    /\ Idle
    /\ UNCHANGED textVars

\* getattr(function, name) with a period in name: _register raises ValueError
\* before call exists
RegisterRejected(module, name) ==
    /\ AtRest
    /\ ~NameOk(name)
    /\ lastOp' = [op |-> "ValueError", module |-> module, name |-> name]
    /\ UNCHANGED <<REGISTRY, gl, scripts, registry, raw>>
    /\ Idle
    /\ UNCHANGED textVars

\* the prefix without the separator appended
PrefixOfBare(prefix) ==
    LET p == IF prefix = MainModule THEN <<>> ELSE prefix
    IN  IF p # <<>> THEN rstrip(p) ELSE <<>>

\* the prefix as load_scripts normalises it
PrefixOf(prefix) ==
    LET p == IF prefix = MainModule THEN <<>> ELSE prefix
    IN  IF p # <<>> THEN rstrip(p) \o <<".">> ELSE <<>>

\* the entries load_scripts queues
Selected(reg, prefix) == {full \in DOMAIN reg : StartsWith(full, PrefixOf(prefix))}

\* load_scripts(conn, prefix)
LoadScripts(conn, prefix) ==
    /\ AtRest
    /\ LET sel == Selected(REGISTRY, prefix)
           store == IF conn = "redis"
                    THEN LoadAll([scripts |-> scripts, registry |-> registry], sel, REGISTRY)
                    ELSE [scripts |-> scripts, registry |-> registry]
       IN  /\ scripts' = store.scripts
           /\ registry' = store.registry
           /\ lastOp' = [op |-> "load_scripts", conn |-> conn, prefix |-> prefix,
                         added |-> Cardinality(sel)]
    /\ UNCHANGED <<REGISTRY, gl, raw>>
    /\ Idle
    /\ UNCHANGED textVars

\* ------------------------------------------------------------ the host engine
\* The store runs a loaded text as a function of no arguments that reads the
\* globals KEYS and ARGV.  A frame is one running script: the digest of its
\* text, where it is in it, and its locals _KEYS and _ARGV.
KEYS_ADDR == 1
ARGV_ADDR == 2

NewFrame(hash) ==
    [sha |-> hash, st |-> "header", ip |-> 1, keys |-> Nil, argv |-> Nil,
     left |-> <<>>, val |-> Nil]

Top == stack[Len(stack)]
SetTop(f) == [stack EXCEPT ![Len(stack)] = f]
TextOf(f) == f.sha.v

\* v[k] for a table v
Index(h, v, k) == IF k <= Len(h[v.v]) THEN h[v.v][k] ELSE Nil

\* CALL_HEADER with table.remove(ARGV) left out
PreambleKeep(h) ==
    LET A == h[ARGV_ADDR]
        n == Len(A)
    IN  IF n = 0 \/ A[n].t = "str"
        THEN [ok |-> TRUE, keys |-> Ref(KEYS_ADDR), argv |-> Ref(ARGV_ADDR), heap |-> h]
        ELSE IF A[n].t # "tab" THEN [ok |-> FALSE]
        ELSE [ok |-> TRUE, keys |-> Index(h, A[n], 1), argv |-> Index(h, A[n], 2),
              heap |-> h]

\* CALL_HEADER testing the first element of ARGV, not the last
PreambleFirst(h) ==
    LET A == h[ARGV_ADDR]
        n == Len(A)
    IN  IF n = 0 \/ A[1].t = "str"
        THEN [ok |-> TRUE, keys |-> Ref(KEYS_ADDR), argv |-> Ref(ARGV_ADDR), heap |-> h]
        ELSE IF A[n].t # "tab" THEN [ok |-> FALSE]
        ELSE [ok |-> TRUE, keys |-> Index(h, A[n], 1), argv |-> Index(h, A[n], 2),
              heap |-> [h EXCEPT ![ARGV_ADDR] = Sub(A, 1, n - 1)]]

\* CALL_HEADER:
\*   local _KEYS, _ARGV;
\*   if #ARGV == 0 or type(ARGV[#ARGV]) == 'string' then
\*       _KEYS = KEYS; _ARGV = ARGV;
\*   else
\*       _KEYS = ARGV[#ARGV][1]; _ARGV = ARGV[#ARGV][2]; table.remove(ARGV);
\*   end;
\* (indexing a last element that is neither a string nor a table is an error)
Preamble(h) ==
    LET A == h[ARGV_ADDR]
        n == Len(A)
    IN  IF n = 0 \/ A[n].t = "str"
        THEN [ok |-> TRUE, keys |-> Ref(KEYS_ADDR), argv |-> Ref(ARGV_ADDR), heap |-> h]
        ELSE IF A[n].t # "tab" THEN [ok |-> FALSE]
        ELSE [ok |-> TRUE, keys |-> Index(h, A[n], 1), argv |-> Index(h, A[n], 2),
              heap |-> [h EXCEPT ![ARGV_ADDR] = Sub(A, 1, n - 1)]]

\* The expressions of the scripts: a table constructor, a one-digit number, a
\* quoted one-token string, the locals _KEYS and _ARGV, the globals KEYS and
\* ARGV.  An expression is evaluated in the heap h for the frame f and gives
\* its value, the heap with the tables it made, and the place after it.
Bad == [ok |-> FALSE]
DigitStr == <<"0", "1", "2", "3", "4", "5", "6", "7", "8", "9">>
DigitValue(d) == (CHOOSE k \in 1..10 : DigitStr[k] = d) - 1
SkipBlank(text, i) == SkipWhile(text, i, Blank \cup {Newline})

RECURSIVE EvalExpr(_, _, _, _)
RECURSIVE EvalList(_, _, _, _, _, _)
EvalExpr(text, i0, h, f) ==
    LET i == SkipBlank(text, i0)
    IN  IF i > Len(text) THEN Bad
        ELSE IF text[i] = "{" THEN
            LET l == EvalList(text, i + 1, h, f, <<>>, "}")
            IN  IF l.ok THEN [ok |-> TRUE, v |-> Ref(Len(l.h) + 1),
                              h |-> Append(l.h, l.vs), i |-> l.i]
                ELSE Bad
        ELSE IF text[i] \in Digits THEN
            [ok |-> TRUE, v |-> Num(DigitValue(text[i])), h |-> h, i |-> i + 1]
        ELSE IF text[i] = "_" /\ i < Len(text) /\ text[i + 1] \in {"KEYS", "ARGV"} THEN
            [ok |-> TRUE, v |-> IF text[i + 1] = "KEYS" THEN f.keys ELSE f.argv,
             h |-> h, i |-> i + 2]
        ELSE IF text[i] = "KEYS" THEN [ok |-> TRUE, v |-> Ref(KEYS_ADDR), h |-> h, i |-> i + 1]
        ELSE IF text[i] = "ARGV" THEN [ok |-> TRUE, v |-> Ref(ARGV_ADDR), h |-> h, i |-> i + 1]
        ELSE IF text[i] \in Quote /\ i + 2 <= Len(text) /\ text[i + 2] = text[i] THEN
            [ok |-> TRUE, v |-> Str(text[i + 1]), h |-> h, i |-> i + 3]
        ELSE Bad

EvalList(text, i0, h, f, acc, close) ==
    LET i == SkipBlank(text, i0)
    IN  IF i > Len(text) THEN Bad
        ELSE IF text[i] = close THEN [ok |-> TRUE, vs |-> acc, h |-> h, i |-> i + 1]
        ELSE LET e == EvalExpr(text, i, h, f)
             IN  IF ~e.ok THEN Bad
                 ELSE LET j == SkipBlank(text, e.i)
                      IN  IF j <= Len(text) /\ text[j] = ","
                          THEN EvalList(text, j + 1, e.h, f, Append(acc, e.v), close)
                          ELSE IF j <= Len(text) /\ text[j] = close
                          THEN [ok |-> TRUE, vs |-> Append(acc, e.v), h |-> e.h, i |-> j + 1]
                          ELSE Bad

\* The reply for a value: a table becomes the list of its elements up to the
\* first nil, converted in turn (to MaxReplyDepth levels).
RECURSIVE Reply(_, _, _)
Reply(v, h, depth) ==
    IF v.t # "tab" THEN v
    ELSE IF depth = 0 THEN Err("reached lua stack limit")
    ELSE LET tab == h[v.v]
             n == SkipUntil(tab, 1, {Nil}) - 1
         IN  List([k \in 1..n |-> Reply(tab[k], h, depth - 1)])

\* the script ends with an error: the call of the wrapper raises it
Raise(msg) == stack' = <<>> /\ heap' = <<>> /\ result' = Err(msg)

\* an argument as the client hands it over, unconverted
ExternalArgRaw(n) == Num(n)
\* an argument of a call from outside reaches the script as a string
ExternalArg(n) == Str(DigitStr[n + 1])

\* _caller(hash).call(conn, keys, argv):
\* conn.evalsha(hash, len(keys), *(list(keys) + list(argv)))
Invoke(module, name, keys, argv) ==
    /\ AtRest
    /\ <<module, name>> \in DOMAIN gl
    /\ LET hash == gl[<<module, name>>]
           numkeys == Len(keys)
           args == keys \o argv
       IN  IF hash \notin scripts
           THEN Raise("NOSCRIPT")
           ELSE /\ heap' = <<[k \in 1..numkeys |-> ExternalArg(args[k])],
                             [k \in 1..Len(args) - numkeys |-> ExternalArg(args[numkeys + k])]>>
                /\ stack' = <<NewFrame(hash)>>
                /\ result' = NoResult
    /\ call' = [module |-> module, name |-> name, keys |-> keys, argv |-> argv]
    /\ UNCHANGED regVars
    /\ UNCHANGED textVars

\* the script at the top of the stack runs its header
RunPreamble ==
    /\ stack # <<>> /\ Top.st = "header"
    /\ LET pr == Preamble(heap)
       IN  IF TextOf(Top)[1] = CALL_HEADER /\ pr.ok
           THEN /\ stack' = SetTop([Top EXCEPT !.st = "body", !.ip = 2,
                                               !.keys = pr.keys, !.argv = pr.argv])
                /\ heap' = pr.heap
                /\ UNCHANGED result
           ELSE Raise("attempt to index a non-table value")
    /\ UNCHANGED <<call>>
    /\ UNCHANGED regVars
    /\ UNCHANGED textVars

\* the next statement of the script at the top of the stack:
\*   return <expr>
\*   table.insert(ARGV, {<args>});        (the first half of a rewritten call)
\*   the end of the text, which returns nothing
\* and anything else is an error of the script
RunStatement ==
    /\ stack # <<>> /\ Top.st = "body"
    /\ LET text == TextOf(Top)
           i == SkipWhile(text, Top.ip, Blank \cup {Newline, ";"})
       IN  IF i > Len(text)
           THEN /\ stack' = SetTop([Top EXCEPT !.st = "ret", !.val = Nil])
                /\ UNCHANGED <<heap, result>>
           ELSE IF text[i] = "return"
           THEN LET e == EvalExpr(text, i + 1, heap, Top)
                IN  IF e.ok
                    THEN /\ stack' = SetTop([Top EXCEPT !.st = "ret", !.val = e.v])
                         /\ heap' = e.h
                         /\ UNCHANGED result
                    ELSE Raise("script error")
           ELSE IF text[i] = PUSH_OPEN
           THEN LET l == EvalList(text, i + 1, heap, Top, <<>>, PUSH_CLOSE)
                IN  IF l.ok
                    THEN /\ heap' = [Append(l.h, l.vs) EXCEPT
                                        ![ARGV_ADDR] = Append(@, Ref(Len(l.h) + 1))]
                         /\ stack' = SetTop([Top EXCEPT !.st = "pushed", !.ip = l.i])
                         /\ UNCHANGED result
                    ELSE Raise("script error")
           ELSE Raise("script error")
    /\ UNCHANGED <<call>>
    /\ UNCHANGED regVars
    /\ UNCHANGED textVars

\* redis.call('HGET', ':registry', full): the value of the field, or false
HGet(full) == IF full \in DOMAIN registry THEN registry[full] ELSE Nil

\* _G[name] is a function: the store defines f_<digest> for each loaded text
Defined(name) == name.t = "f_" /\ name.v \in scripts

\* the second half of a rewritten call, after the push:
\*   <left>_G[redis.call('HGET', ':registry', '<full>')]();
CallTarget ==
    /\ stack # <<>> /\ Top.st = "pushed"
    /\ LET text == TextOf(Top)
           c == SkipUntil(text, Top.ip, {CALL_OPEN})
           d == SkipUntil(text, c + 1, {CALL_CLOSE})
           left == Sub(text, Top.ip, c - 1)
           name == HGet(Sub(text, c + 1, d - 1))
       IN  IF ~Defined(name) THEN Raise("attempt to call a nil value")
           ELSE IF Len(stack) >= MaxStack THEN Raise("stack overflow")
           ELSE /\ stack' = Append(SetTop([Top EXCEPT !.st = "calling", !.left = left,
                                                      !.ip = d + 1]),
                                   NewFrame(name.v))
                /\ UNCHANGED <<heap, result>>
    /\ UNCHANGED <<call>>
    /\ UNCHANGED regVars
    /\ UNCHANGED textVars

\* the script at the top of the stack returns: to the client, which converts
\* the value, or to the calling script, which returns it in turn
\* ("return _G[...]()"), or drops it and goes on ("_G[...]()")
Return ==
    /\ stack # <<>> /\ Top.st = "ret"
    /\ IF Len(stack) = 1
       THEN /\ stack' = <<>>
            /\ result' = Reply(Top.val, heap, MaxReplyDepth)
            /\ heap' = <<>>
       ELSE LET caller == stack[Len(stack) - 1]
                below == Sub(stack, 1, Len(stack) - 2)
            IN  IF Range(caller.left) \subseteq Blank
                THEN /\ stack' = Append(below, [caller EXCEPT !.st = "body"])
                     /\ UNCHANGED <<heap, result>>
                ELSE IF caller.left[1] = "return" /\ Range(Tail(caller.left)) \subseteq Blank
                THEN /\ stack' = Append(below, [caller EXCEPT !.st = "ret", !.val = Top.val])
                     /\ UNCHANGED <<heap, result>>
                ELSE Raise("script error")
    /\ UNCHANGED <<call>>
    /\ UNCHANGED regVars
    /\ UNCHANGED textVars

\* the wrapper has returned (or raised) and the client goes on
Resume ==
    /\ stack = <<>> /\ call # NoCall
    /\ call' = NoCall /\ result' = NoResult
    /\ UNCHANGED <<stack, heap>>
    /\ UNCHANGED regVars
    /\ UNCHANGED textVars

\* ------------------------------------------------------------ one transformation
\* The source texts a transformation is tried on: every text of at most
\* MaxText tokens over the tokens the mangler looks at, and every call site
\*   prefix CALL . path gap ( args ) rest
\* with at most MaxArgs tokens of argument text.
MangleTokens == {"KEYS", "ARGV", "'", "\"", "x", " "}
CallPrefixes == {<<>>, <<"return", " ">>, <<"x", Newline>>, <<"x", "(", ")", " ">>}
CallPaths == {<<"f">>, <<"m", ".", "f">>, <<"1">>}
CallGaps == {<<>>, <<Newline>>}
ArgTokens == {"x", ",", "(", ")", Newline, "ARGV"}
CallRests == {<<>>, <<" ">>, <<" ", Newline, "x">>, <<"x">>, <<")">>}

CallSite(pre, path, gap, args, rest) ==
    pre \o <<"CALL", ".">> \o path \o gap \o <<"(">> \o args \o <<")">> \o rest

FixTexts ==
    SeqsUpTo(MangleTokens, MaxText) \cup
    {CallSite(pre, path, gap, args, rest) :
        pre \in CallPrefixes, path \in CallPaths, gap \in CallGaps,
        args \in SeqsUpTo(ArgTokens, MaxArgs), rest \in CallRests}

FixModules == {<<>>, <<"m">>}

InitRegistry ==
    /\ REGISTRY = Empty
    /\ gl = Empty
    /\ scripts = {}
    /\ registry = Empty
    /\ raw = Empty
    /\ lastOp = [op |-> "none"]
    /\ call = NoCall
    /\ stack = <<>>
    /\ heap = <<>>
    /\ result = NoResult

InitFix ==
    /\ fixIn \in FixTexts
    /\ fixModule \in FixModules
    /\ fixOut = <<>>
    /\ fixPc = "raw"
    /\ InitRegistry

\* fixed = _fix_calls(script, module)
FixCalls ==
    /\ fixPc = "raw"
    /\ fixOut' = FixCallsOf(fixIn, fixModule)
    /\ fixPc' = "fixed"
    /\ UNCHANGED <<fixIn, fixModule>>
    /\ UNCHANGED regVars
    /\ UNCHANGED runVars

NextFix == FixCalls

SpecFix == InitFix /\ [][NextFix]_vars

\* ------------------------------------------------------------ the registry alone
\* Modules "__main__", "a" and "ab"; leaf names "a" and "x"; "a.x" as a leaf
\* name is the one the code rejects.
RetArgv == <<"return", " ", "ARGV">>
CallRel == <<"CALL", ".", "x", "(", "KEYS", ")">>
CallAbs == <<"CALL", ".", "a", ".", "x", "(", "KEYS", ")">>
RegDefs == {<<MainModule, <<"a">>, RetArgv>>, <<MainModule, <<"a">>, CallRel>>,
            <<<<"a">>, <<"x">>, RetArgv>>, <<<<"a">>, <<"x">>, CallRel>>,
            <<<<"a">>, <<"x">>, CallAbs>>,
            <<<<"a", "b">>, <<"x">>, RetArgv>>}
RegBadNames == {<<"a", ".", "x">>}
RegPrefixes == {<<>>, <<"a">>, <<"a", ".">>, <<"a", "b">>, MainModule}

Init ==
    /\ fixIn = <<>>
    /\ fixModule = <<>>
    /\ fixOut = <<>>
    /\ fixPc = "none"
    /\ InitRegistry

NextRegistry ==
    \/ \E d \in RegDefs : \E n \in {d[2]} \cup RegBadNames, c \in Conns :
          Register(d[1], n, d[3], c)
    \/ \E d \in RegDefs : \E n \in {d[2]} \cup RegBadNames : RegisterRejected(d[1], n)
    \/ \E c \in Conns, p \in RegPrefixes : LoadScripts(c, p)

SpecRegistry == Init /\ [][NextRegistry]_vars

\* ------------------------------------------------------------ the example module
\* src/examples/example.py, with more scripts: another return_args to register
\* in place of the first, a script that makes two calls, one inside the other
\* and one after it, and a script that calls itself.
Example == <<"example">>
ReturnArgs == <<"return_args">>
CallReturn == <<"call_return">>
SrcReturnArgs == <<Newline, "return", " ", "ARGV", Newline>>
SrcReturnKeys == <<Newline, "return", " ", "KEYS", Newline>>
SrcCallReturn ==
    <<Newline, "return", " ", "CALL", ".", "return_args", "(", "{", "}", ",", " ",
      "{", "1", ",", " ", "2", ",", " ", "3", ",", " ", "ARGV", "}", ")", Newline>>
SrcTwoCalls ==
    <<Newline, "CALL", ".", "call_return", "(", "KEYS", ",", " ", "ARGV", ")", Newline,
      "return", " ", "CALL", ".", "example", ".", "return_args", "(", "KEYS", ",", " ",
      "{", "ARGV", "}", ")", Newline>>
SrcDeeper ==
    <<Newline, "return", " ", "CALL", ".", "deeper", "(", "KEYS", ",", " ", "{", "ARGV", "}", ")",
      Newline>>

RunDefs == {<<Example, ReturnArgs, SrcReturnArgs>>, <<Example, ReturnArgs, SrcReturnKeys>>,
            <<Example, CallReturn, SrcCallReturn>>,
            <<Example, <<"two_calls">>, SrcTwoCalls>>,
            <<Example, <<"deeper">>, SrcDeeper>>}
RunBadNames == {<<"example", ".", "f">>}
RunPrefixes == {<<>>, Example}
RunArgs == {<<<<>>, <<1, 2, 3>>>>, <<<<>>, <<4, 5, 6>>>>, <<<<7>>, <<>>>>}

Next ==
    \/ \E d \in RunDefs : \E n \in {d[2]} \cup RunBadNames, c \in Conns :
          Register(d[1], n, d[3], c)
    \/ \E n \in RunBadNames : RegisterRejected(Example, n)
    \/ \E c \in Conns, p \in RunPrefixes : LoadScripts(c, p)
    \/ \E d \in RunDefs, a \in RunArgs : Invoke(d[1], d[2], a[1], a[2])
    \/ RunPreamble
    \/ RunStatement
    \/ CallTarget
    \/ Return
    \/ Resume

Spec == Init /\ [][Next]_vars

\* ------------------------------------------------------------ claims: the transformation
NameTokens == {"KEYS", "ARGV"}
QuoteBefore(s, i) == i > 1 /\ s[i - 1] \in Quote
QuoteAfter(s, i) == i < Len(s) /\ s[i + 1] \in Quote

\* the source with "_" put before exactly the occurrences Rewritten picks
Aliased(s, Rewritten(_, _)) ==
    Flatten([i \in 1..Len(s) |->
        IF s[i] \in NameTokens /\ Rewritten(s, i) THEN <<"_", s[i]>> ELSE <<s[i]>>])

NotQuotedOnBothSides(s, i) == ~(QuoteBefore(s, i) /\ QuoteAfter(s, i))
NotQuotedOnEitherSide(s, i) == ~QuoteBefore(s, i) /\ ~QuoteAfter(s, i)

\* C6 as stated: an occurrence of KEYS or ARGV is rewritten to _KEYS / _ARGV
\* if and only if it is not both immediately preceded and immediately
\* followed by a quote character.
C6_AsStated ==
    (fixPc = "fixed" /\ "CALL" \notin Range(fixIn)) =>
        fixOut = <<CALL_HEADER>> \o Aliased(fixIn, NotQuotedOnBothSides)

\* C6 amended: an occurrence of KEYS or ARGV is rewritten to _KEYS / _ARGV if
\* and only if it is neither immediately preceded nor immediately followed by
\* a quote character; so an occurrence quoted on both sides is never mangled,
\* one with a quote on one side only is not mangled either, and one inside a
\* longer quoted string with no quote directly adjacent is mangled.
C6_Mangling ==
    (fixPc = "fixed" /\ "CALL" \notin Range(fixIn)) =>
        fixOut = <<CALL_HEADER>> \o Aliased(fixIn, NotQuotedOnEitherSide)

\* 'KEYS ARGV : the first name has a quote before it only and stays, the
\* second has none and is mangled
C6_Witness ==
    /\ fixPc = "fixed"
    /\ fixIn = <<"'", "KEYS", " ", "ARGV">>
    /\ fixOut = <<CALL_HEADER, "'", "KEYS", " ", "_", "ARGV">>

\* The one call expression of a text with one CALL token, read as the host
\* language reads it: CALL . path, blanks or line breaks, "(", the argument
\* text up to the matching ")".
CallPositions(s) == {j \in 1..Len(s) : s[j] = "CALL"}
RECURSIVE MatchingClose(_, _, _)
MatchingClose(s, k, depth) ==
    IF k > Len(s) THEN 0
    ELSE IF s[k] = ")" THEN (IF depth = 0 THEN k ELSE MatchingClose(s, k + 1, depth - 1))
    ELSE IF s[k] = "(" THEN MatchingClose(s, k + 1, depth + 1)
    ELSE MatchingClose(s, k + 1, depth)

CallExpr(s) ==
    LET j == CHOOSE x \in CallPositions(s) : TRUE
        p == SkipUntil(s, j + 2, Punct \ {"."})
        o == SkipWhile(s, p, Blank \cup {Newline})
        c == IF o <= Len(s) /\ s[o] = "(" THEN MatchingClose(s, o + 1, 0) ELSE 0
    IN  [ok |-> /\ j + 1 <= Len(s) /\ s[j + 1] = "."
                /\ ValidPath(Sub(s, j + 2, p - 1))
                /\ c > 0,
         at |-> j, gap |-> Sub(s, p, o - 1), open |-> o, close |-> c,
         args |-> Sub(s, o + 1, c - 1),
         rest |-> Sub(s, c + 1, SkipUntil(s, c + 1, {Newline}) - 1)]

OneCallExpr(s) == Cardinality(CallPositions(s)) = 1 /\ CallExpr(s).ok
NestedParens(e) == \E k \in 1..Len(e.args) : e.args[k] \in {"(", ")"}
SpansLines(s, e) == \E k \in e.at..e.close : s[k] = Newline

NoUnderscore(t) == t # "_"
\* the text comes out as it went in (but for the mangling of its names): the
\* marker is still there, nothing is pushed and nothing is looked up
PassedThrough ==
    /\ SelectSeq(fixOut, NoUnderscore) = <<CALL_HEADER>> \o fixIn
    /\ "CALL" \in Range(fixOut)
    /\ PUSH_OPEN \notin Range(fixOut) /\ CALL_OPEN \notin Range(fixOut)

Rewritten ==
    /\ "CALL" \notin Range(fixOut)
    /\ Cardinality({k \in 1..Len(fixOut) : fixOut[k] = PUSH_OPEN}) = 1
    /\ Cardinality({k \in 1..Len(fixOut) : fixOut[k] = CALL_OPEN}) = 1

PublishesExactly(Names) ==
    /\ \A n \in Names :
          /\ Sha1(REGISTRY[n][2]) \in scripts'
          /\ n \in DOMAIN registry' /\ registry'[n] = REGISTRY[n][1]
    /\ \A n \in (DOMAIN registry' \cup DOMAIN registry) \ Names :
          /\ n \in DOMAIN registry /\ n \in DOMAIN registry'
          /\ registry'[n] = registry[n]
    /\ scripts' = scripts \cup {Sha1(REGISTRY[n][2]) : n \in Names}

IsOrUnder(n, P) == n = P \/ StartsWith(n, P \o <<".">>)
Under(n, P) == StartsWith(n, P \o <<".">>)

\* C1 as stated: load_scripts(conn, P), P not empty, publishes exactly the
\* entries whose qualified name is P or begins with P + "." (stated here for
\* the plain prefixes "a" and "ab")
C1_AsStated ==
    [][\A P \in {<<"a">>, <<"a", "b">>} :
          LoadScripts("redis", P) =>
              PublishesExactly({n \in DOMAIN REGISTRY : IsOrUnder(n, P)})]_vars

\* C1 amended: load_scripts(conn, P), P not empty and not "__main__" (which
\* selects every entry), publishes exactly the entries whose qualified name
\* begins with P, its trailing periods dropped, followed by "."; an entry
\* named exactly P is not published, an entry whose name begins with P
\* without the separator ("ab", "ab.x") is never published, and no matching
\* entry is skipped.
C1_PublishIsolation ==
    [][\A P \in RegPrefixes \ {<<>>} :
          LoadScripts("redis", P) =>
              PublishesExactly(IF P = MainModule THEN DOMAIN REGISTRY
                               ELSE {n \in DOMAIN REGISTRY : Under(n, rstrip(P))})]_vars

\* "a", "a.x" and "ab.x" are registered, none published; load_scripts(conn, "a")
\* has published "a.x" alone
C1_Witness ==
    /\ lastOp.op = "load_scripts" /\ lastOp.conn = "redis" /\ lastOp.prefix = <<"a">>
    /\ DOMAIN REGISTRY = {<<"a">>, <<"a", ".", "x">>, <<"a", "b", ".", "x">>}
    /\ DOMAIN registry = {<<"a", ".", "x">>}
    /\ registry[<<"a", ".", "x">>] = REGISTRY[<<"a", ".", "x">>][1]
    /\ lastOp.added = 1

\* a step that registers again, with another source text, a name that is
\* registered
ReRegisters ==
    /\ lastOp'.op = "register"
    /\ lastOp'.full \in DOMAIN REGISTRY
    /\ raw'[lastOp'.full] # raw[lastOp'.full]

OverwritesEntry ==
    LET n == lastOp'.full
        fixed == FixCallsOf(raw'[n], ModuleOf(lastOp'.module))
    IN  /\ DOMAIN REGISTRY' = DOMAIN REGISTRY
        /\ \A m \in DOMAIN REGISTRY \ {n} : REGISTRY'[m] = REGISTRY[m]
        /\ REGISTRY'[n] = <<F(Sha1(fixed)), fixed>>

\* C4 as stated: registering a name again with a different source text leaves
\* one entry for the name, holding the second registration's identity and
\* transformed text; the second identity differs from the first; what was
\* loaded in the store is still loaded.
C4_AsStated ==
    [][ReRegisters =>
          /\ OverwritesEntry
          /\ REGISTRY'[lastOp'.full][1] # REGISTRY[lastOp'.full][1]
          /\ scripts \subseteq scripts']_vars

\* C4 amended: registering a name again with a different source text leaves
\* one entry for the name, holding the second registration's identity and
\* transformed text; the second identity differs from the first exactly when
\* the two transformed texts differ (two sources that differ only in writing
\* a call target relative or fully qualified transform to the same text and
\* get the same identity); what was loaded in the store is still loaded, and
\* no step of the system removes a loaded script.
C4_ReRegistration ==
    [][/\ scripts \subseteq scripts'
       /\ ReRegisters =>
            /\ OverwritesEntry
            /\ (REGISTRY'[lastOp'.full][1] # REGISTRY[lastOp'.full][1]
                  <=> REGISTRY'[lastOp'.full][2] # REGISTRY[lastOp'.full][2])]_vars

\* "a.x" was registered with a connection, then registered again with another
\* source and without one: the entry holds the new identity, the store still
\* holds the text loaded under the old one
C4_Witness ==
    /\ lastOp.op = "register" /\ lastOp.conn = "dummy" /\ lastOp.was # <<>>
    /\ lastOp.was[2] # raw[lastOp.full]
    /\ REGISTRY[lastOp.full][1] # lastOp.was[1][1]
    /\ lastOp.was[1][1].v \in scripts
    /\ REGISTRY[lastOp.full][1].v \notin scripts

\* C5: an attempt to register a leaf name that contains "." fails with an
\* error at once: the registry, the caller's namespace and the backing store
\* are unchanged by it.
C5_NameConflict ==
    [][(/\ lastOp' # lastOp
        /\ lastOp'.op \in {"register", "ValueError"}
        /\ "." \in Range(lastOp'.name)) =>
            /\ lastOp'.op = "ValueError"
            /\ UNCHANGED <<REGISTRY, gl, scripts, registry>>]_vars

\* the attempt to register "a.x" as a leaf name has failed, with entries in
\* the registry and in the store
C5_Witness ==
    /\ lastOp.op = "ValueError" /\ lastOp.name = <<"a", ".", "x">>
    /\ REGISTRY # Empty /\ registry # Empty /\ scripts # {}

\* C8: registering a script with a real connection leaves the store as
\* registering it without one and then publishing that entry alone does: the
\* transformed text is loaded and the record maps the qualified name to the
\* identity the local entry holds.
C8_RegisterPublishes ==
    [][\A d \in RegDefs :
          Register(d[1], d[2], d[3], "redis") =>
              LET n == FullName(d[1], d[2])
                  published == LoadEntry([scripts |-> scripts, registry |-> registry],
                                         n, REGISTRY'[n])
              IN  /\ scripts' = published.scripts
                  /\ registry' = published.registry
                  /\ Sha1(REGISTRY'[n][2]) \in scripts'
                  /\ registry'[n] = REGISTRY'[n][1]]_vars

\* "a.x" has just been registered with a real connection: its text is loaded
\* and the record holds the identity of the local entry
C8_Witness ==
    /\ lastOp.op = "register" /\ lastOp.conn = "redis"
    /\ lastOp.full = <<"a", ".", "x">>
    /\ Sha1(REGISTRY[lastOp.full][2]) \in scripts
    /\ registry[lastOp.full] = REGISTRY[lastOp.full][1]

\* ------------------------------------------------------------ claims: execution
RA == <<"example", ".", "return_args">>
CR == <<"example", ".", "call_return">>

\* the entry of REGISTRY under full is loaded and recorded in the store
Published(full) ==
    /\ full \in DOMAIN REGISTRY /\ full \in DOMAIN registry
    /\ registry[full] = REGISTRY[full][1]
    /\ Sha1(REGISTRY[full][2]) \in scripts

\* a wrapper was called and has returned: result is what it returned
Finished == stack = <<>> /\ call # NoCall

\* what the client gets for the arguments it passed: strings
Strings(args) == List([k \in 1..Len(args) |-> Str(DigitStr[args[k] + 1])])

ExampleSetUp ==
    /\ Published(RA) /\ raw[RA] = SrcReturnArgs
    /\ Published(CR) /\ raw[CR] = SrcCallReturn

\* C2: with return_args ("return ARGV") and call_return ("return
\* CALL.return_args({}, {1, 2, 3, ARGV})") registered in one namespace and
\* published, return_args called from outside with keys [] and arguments
\* [1,2,3] returns ["1","2","3"], and call_return with keys [] and arguments
\* [4,5,6] returns [1, 2, 3, ["4","5","6"]].
C2_RoundTrip ==
    (ExampleSetUp /\ Finished /\ call.module = Example /\ call.keys = <<>>) =>
        /\ (call.name = ReturnArgs /\ call.argv = <<1, 2, 3>>) =>
               result = List(<<Str("1"), Str("2"), Str("3")>>)
        /\ (call.name = CallReturn /\ call.argv = <<4, 5, 6>>) =>
               result = List(<<Num(1), Num(2), Num(3),
                               List(<<Str("4"), Str("5"), Str("6")>>)>>)

C2_Witness ==
    /\ ExampleSetUp /\ Finished
    /\ call = [module |-> Example, name |-> CallReturn, keys |-> <<>>, argv |-> <<4, 5, 6>>]
    /\ result = List(<<Num(1), Num(2), Num(3), List(<<Str("4"), Str("5"), Str("6")>>)>>)

\* a step in which the script at the top of the stack runs its header
PreambleStep ==
    /\ stack # <<>> /\ Top.st = "header"
    /\ Len(stack') = Len(stack) /\ stack'[Len(stack')].st = "body"

\* C3: when a transformed script starts, if ARGV is empty or its last element
\* is a string, the header binds _KEYS and _ARGV to KEYS and ARGV themselves
\* and leaves ARGV as it is; otherwise it binds them to the first and second
\* element of the last element of ARGV and removes that last element, so
\* ARGV becomes exactly one element shorter.
C3_Dispatch ==
    [][PreambleStep =>
          LET A == heap[ARGV_ADDR]
              f == stack'[Len(stack')]
          IN  IF A = <<>> \/ A[Len(A)].t = "str"
              THEN /\ f.keys = Ref(KEYS_ADDR) /\ f.argv = Ref(ARGV_ADDR)
                   /\ heap' = heap
              ELSE /\ f.keys = heap[A[Len(A)].v][1]
                   /\ f.argv = heap[A[Len(A)].v][2]
                   /\ Len(heap'[ARGV_ADDR]) = Len(A) - 1
                   /\ heap'[ARGV_ADDR] = Sub(A, 1, Len(A) - 1)
                   /\ \A a \in 1..Len(heap) : a # ARGV_ADDR => heap'[a] = heap[a]
                   /\ Len(heap') = Len(heap)]_vars

\* a script called from outside with arguments has called another: the first
\* runs with KEYS and ARGV themselves, the second with the tables passed to
\* it, and ARGV is as the client supplied it
C3_Witness ==
    /\ Len(stack) = 2 /\ stack[2].st = "body"
    /\ stack[1].keys = Ref(KEYS_ADDR) /\ stack[1].argv = Ref(ARGV_ADDR)
    /\ stack[2].keys.t = "tab" /\ stack[2].keys.v > ARGV_ADDR
    /\ stack[2].argv.t = "tab" /\ stack[2].argv.v > ARGV_ADDR
    /\ call.argv # <<>>
    /\ Reply(Ref(ARGV_ADDR), heap, 1) = Strings(call.argv)

\* C9: in an execution that begins with a call from outside and makes any
\* sequence and nesting of rewritten calls, each callee's header removes the
\* one record its caller pushed: whenever a script body is running, ARGV has
\* the length it had at the call from outside; between a push and the end of
\* the callee's header it has one element more.
C9_Balance ==
    stack # <<>> =>
        /\ Top.st \in {"body", "ret"} => Len(heap[ARGV_ADDR]) = Len(call.argv)
        /\ (Top.st = "pushed" \/ (Top.st = "header" /\ Len(stack) > 1)) =>
              Len(heap[ARGV_ADDR]) = Len(call.argv) + 1
        /\ (Top.st = "header" /\ Len(stack) = 1) => Len(heap[ARGV_ADDR]) = Len(call.argv)

\* three scripts deep, the second call of its caller, the body of the third
\* is running and ARGV holds the three arguments of the client
C9_Witness ==
    /\ Len(stack) >= 3 /\ Top.st = "body"
    /\ Len(call.argv) = 3 /\ Len(heap[ARGV_ADDR]) = 3
    /\ Len(heap) > 4

\* C10: a rewritten call site takes its target's identity, when it runs, from
\* the record of the store under the target's qualified name: once
\* return_args has been registered with a connection, or published, every
\* later call of call_return runs the return_args then registered, whatever
\* was recorded when call_return was transformed and published.
C10_LateBinding ==
    (/\ Finished /\ call.module = Example /\ call.name = CallReturn
     /\ gl[<<Example, CallReturn>>] \in scripts
     /\ raw[CR] = SrcCallReturn
     /\ RA \in DOMAIN REGISTRY
     /\ \/ lastOp.op = "register" /\ lastOp.conn = "redis" /\ lastOp.full = RA
        \/ lastOp.op = "load_scripts" /\ lastOp.conn = "redis") =>
        result = IF raw[RA] = SrcReturnArgs
                 THEN List(<<Num(1), Num(2), Num(3), Strings(call.argv)>>)
                 ELSE List(<<>>)

\* return_args was registered again with a connection, from another source
\* and so under another identity, after call_return was published; the call
\* of call_return has run the new return_args ("return KEYS")
C10_Witness ==
    /\ Finished /\ call.name = CallReturn /\ call.argv = <<4, 5, 6>>
    /\ lastOp.op = "register" /\ lastOp.conn = "redis" /\ lastOp.full = RA
    /\ lastOp.was # <<>> /\ lastOp.was[2] = SrcReturnArgs
    /\ lastOp.was[1][1] # REGISTRY[RA][1]
    /\ lastOp.was[1][1].v \in scripts
    /\ gl[<<Example, CallReturn>>] \in scripts
    /\ result = List(<<>>)

====
